---- MODULE Spec2Model ----
(***************************************************************************)
(* Model of src/main.js: the wind-data Fetcher (fetchWindData, a bounded   *)
(* self-recursive retry around one HTTP GET) and the Presenter             *)
(* (loadWindData: grid-length check, degeneracy check, tagging, hand-over  *)
(* to the rendering collaborator).  One action per resumption of the       *)
(* single async control flow: a step runs from one await to the next.      *)
(***************************************************************************)
EXTENDS Integers, Sequences, FiniteSets, TLC

(* ------------------------------------------------------------------ *)
(* Bounds of the explored inputs                                      *)
(* ------------------------------------------------------------------ *)
MaxLen == 2
MaxDim == 1

(* ------------------------------------------------------------------ *)
(* Program constants                                                  *)
(* ------------------------------------------------------------------ *)
MaxAttempts == 3
RetryDelay == 2000
UParameterNumber == 2
VParameterNumber == 3

(* ------------------------------------------------------------------ *)
(* JSON values a response body can hold                               *)
(* ------------------------------------------------------------------ *)
Samples == {0, 1}

RECURSIVE SeqsUpTo(_)
SeqsUpTo(n) ==
    IF n = 0 THEN {<<>>}
    ELSE LET shorter == SeqsUpTo(n - 1)
         IN  shorter \cup {Append(s, x) : s \in {t \in shorter : Len(t) = n - 1}, x \in Samples}

EmptyFields == [f \in {} |-> 0]

\* header values: a missing key, null, a falsy primitive, a truthy primitive, an object
HeaderUndef == [kind |-> "undef", fields |-> EmptyFields]
HeaderNull == [kind |-> "null", fields |-> EmptyFields]
HeaderZero == [kind |-> "zero", fields |-> EmptyFields]
HeaderPrim == [kind |-> "prim", fields |-> EmptyFields]
HeaderObj(fs) == [kind |-> "obj", fields |-> fs]

Dims(nx, ny) == ("nx" :> nx) @@ ("ny" :> ny)

HeaderObjs ==
    {HeaderObj(Dims(nx, ny)) : nx \in 0..MaxDim, ny \in 1..MaxDim}
    \cup {HeaderObj("ny" :> 1),
          HeaderObj(Dims(1, 1) @@ ("parameterNumber" :> 9))}

TruthyHeaders == HeaderObjs \cup {HeaderPrim}

\* data values: a missing key, a non-array value, an array of samples
DataUndef == [kind |-> "undef", items |-> <<>>]
DataOther == [kind |-> "other", items |-> <<>>]
DataArr(s) == [kind |-> "arr", items |-> s]

DataArrays == {DataArr(s) : s \in SeqsUpTo(MaxLen)}

\* elements of the body array: null, a primitive, an object
ElemNull == [kind |-> "null", header |-> HeaderUndef, data |-> DataUndef]
ElemPrim == [kind |-> "prim", header |-> HeaderUndef, data |-> DataUndef]
ElemObj(h, d) == [kind |-> "obj", header |-> h, data |-> d]

GoodElem == ElemObj(HeaderObj(Dims(1, 1)), DataArr(<<1>>))

Elements ==
    {ElemObj(h, d) : h \in TruthyHeaders, d \in DataArrays}
    \cup {ElemNull, ElemPrim,
          ElemObj(HeaderUndef, DataArr(<<1>>)),
          ElemObj(HeaderNull, DataArr(<<1>>)),
          ElemObj(HeaderZero, DataArr(<<1>>)),
          ElemObj(HeaderObj(Dims(1, 1)), DataUndef),
          ElemObj(HeaderObj(Dims(1, 1)), DataOther)}

\* a parsed body: an array of elements, or any other JSON value
BodyArr(es) == [kind |-> "arr", elems |-> es]
BodyOther == [kind |-> "other", elems |-> <<>>]

Bodies ==
    {BodyArr(<<u, v>>) : u \in Elements, v \in Elements}
    \cup {BodyOther, BodyArr(<<>>), BodyArr(<<GoodElem>>),
          BodyArr(<<GoodElem, GoodElem, GoodElem>>)}

\* values of the local `data` before response.json() resolved, and of the
\* Fetcher's result before it returned / when it returned null
NoBody == [kind |-> "none", elems |-> <<>>]
Pending == [kind |-> "pending", elems |-> <<>>]
Null == [kind |-> "null", elems |-> <<>>]

\* what fetch() can settle with: a rejection, or a response with a status
StatusCodes == {200, 299, 300, 404, 500}
Rejected == [rejected |-> TRUE, status |-> 0]
Response(s) == [rejected |-> FALSE, status |-> s]
FetchOutcomes == {Rejected} \cup {Response(s) : s \in StatusCodes}

(* ------------------------------------------------------------------ *)
(* Pure pieces of the code                                            *)
(* ------------------------------------------------------------------ *)
\* response.ok
Ok(status) == status \in 200..299

\* x.header / x.data on an element that is not null
HeaderOf(e) == IF e.kind = "obj" THEN e.header ELSE HeaderUndef
DataOf(e) == IF e.kind = "obj" THEN e.data ELSE DataUndef

Truthy(h) == h.kind \in {"prim", "obj"}
IsArray(d) == d.kind = "arr"

\* line 35 with the last clause written without its negation
Validate_NegatedDataCheck(b) ==
    IF b.kind # "arr" THEN "invalid"
    ELSE IF Len(b.elems) # 2 THEN "invalid"
    ELSE IF b.elems[1].kind = "null" THEN "throw"
    ELSE IF ~Truthy(HeaderOf(b.elems[1])) THEN "invalid"
    ELSE IF b.elems[2].kind = "null" THEN "throw"
    ELSE IF ~Truthy(HeaderOf(b.elems[2])) THEN "invalid"
    ELSE IF ~IsArray(DataOf(b.elems[1])) THEN "invalid"
    ELSE IF IsArray(DataOf(b.elems[2])) THEN "invalid"
    ELSE "valid"

\* line 35 without the clause !data[0].header
Validate_NoHeaderCheck(b) ==
    IF b.kind # "arr" THEN "invalid"
    ELSE IF Len(b.elems) # 2 THEN "invalid"
    ELSE IF b.elems[2].kind = "null" THEN "throw"
    ELSE IF ~Truthy(HeaderOf(b.elems[2])) THEN "invalid"
    ELSE IF b.elems[1].kind = "null" THEN "throw"
    ELSE IF ~IsArray(DataOf(b.elems[1])) THEN "invalid"
    ELSE IF ~IsArray(DataOf(b.elems[2])) THEN "invalid"
    ELSE "valid"

\* the condition of line 35, evaluated left to right with short-circuit:
\* "invalid" when it is true, "valid" when it is false, "throw" when reading
\* .header of a null element raises a TypeError
Validate(b) ==
    IF b.kind # "arr" THEN "invalid"
    ELSE IF Len(b.elems) # 2 THEN "invalid"
    ELSE IF b.elems[1].kind = "null" THEN "throw"
    ELSE IF ~Truthy(HeaderOf(b.elems[1])) THEN "invalid"
    ELSE IF b.elems[2].kind = "null" THEN "throw"
    ELSE IF ~Truthy(HeaderOf(b.elems[2])) THEN "invalid"
    ELSE IF ~IsArray(DataOf(b.elems[1])) THEN "invalid"
    ELSE IF ~IsArray(DataOf(b.elems[2])) THEN "invalid"
    ELSE "valid"

\* lines 61-72 and 84 raise a TypeError on these values
DestructureThrows(d) ==
    \/ d.kind # "arr"
    \/ Len(d.elems) < 2
    \/ \E i \in 1..2 :
          \/ d.elems[i].kind = "null"
          \/ ~IsArray(DataOf(d.elems[i]))
    \/ HeaderOf(d.elems[1]).kind \in {"undef", "null"}

\* nx * ny of a header: <<n>> for a number, <<>> for NaN (nx or ny undefined)
Expected(h) ==
    IF h.kind = "obj" /\ {"nx", "ny"} \subseteq DOMAIN h.fields
    THEN <<h.fields["nx"] * h.fields["ny"]>>
    ELSE <<>>

\* line 73 without the vData clause
LengthMismatch_UOnly(uHeader, uData, vData) ==
    <<Len(uData.items)>> # Expected(uHeader)

\* line 73
LengthMismatch(uHeader, uData, vData) ==
    \/ <<Len(uData.items)>> # Expected(uHeader)
    \/ <<Len(vData.items)>> # Expected(uHeader)

\* line 84 without the vData clause
HasWindData_UOnly(uData, vData) ==
    \E i \in 1..Len(uData.items) : uData.items[i] # 0

\* line 84 comparing with null instead of 0
HasWindData_NotNull(uData, vData) ==
    Len(uData.items) > 0 \/ Len(vData.items) > 0

\* line 84
HasWindData(uData, vData) ==
    \/ \E i \in 1..Len(uData.items) : uData.items[i] # 0
    \/ \E i \in 1..Len(vData.items) : vData.items[i] # 0

\* { parameterNumber: pn, ...header }: the spread comes last and wins
Tag_SpreadLast(h, pn) ==
    LET own == IF h.kind = "obj" THEN h.fields ELSE EmptyFields
    IN  HeaderObj([f \in DOMAIN own \cup {"parameterNumber"} |->
                      IF f \in DOMAIN own THEN own[f] ELSE pn])

\* { ...header, parameterNumber: pn }
Tag(h, pn) ==
    LET own == IF h.kind = "obj" THEN h.fields ELSE EmptyFields
    IN  HeaderObj([f \in DOMAIN own \cup {"parameterNumber"} |->
                      IF f = "parameterNumber" THEN pn ELSE own[f]])

\* lines 92-104
WindData(d) ==
    <<[header |-> Tag(HeaderOf(d.elems[1]), UParameterNumber), data |-> DataOf(d.elems[1])],
      [header |-> Tag(HeaderOf(d.elems[2]), VParameterNumber), data |-> DataOf(d.elems[2])]>>

(* ------------------------------------------------------------------ *)
(* State                                                              *)
(* ------------------------------------------------------------------ *)
VARIABLES
    pc,         \* where the async flow is suspended
    attempt,    \* parameter of the current fetchWindData frame
    inflight,   \* requests issued and not yet completed
    requests,   \* requests issued so far
    hist,       \* how each completed request ended, in order
    data,       \* `data` of the current fetchWindData frame
    ret,        \* what the outermost fetchWindData resolved with
    waits,      \* delays of the retry timers started, in order
    waitsDone,  \* retry timers that fired
    alerts,     \* alert() calls, in order
    errlog,     \* console.error / console.warn calls, in order
    rendered,   \* payloads handed to L.velocityLayer, in order
    mapLayers,  \* layers added to the module-level map, in order
    escaped     \* an exception left loadWindData uncaught

vars == <<pc, attempt, inflight, requests, hist, data, ret, waits, waitsDone,
          alerts, errlog, rendered, mapLayers, escaped>>

\* lines 1-12: the map exists and carries the tile layer
Init ==
    /\ pc = "start"
    /\ attempt = 1
    /\ inflight = 0
    /\ requests = 0
    /\ hist = <<>>
    /\ data = NoBody
    /\ ret = Pending
    /\ waits = <<>>
    /\ waitsDone = 0
    /\ alerts = <<>>
    /\ errlog = <<>>
    /\ rendered = <<>>
    /\ mapLayers = <<"tile">>
    /\ escaped = FALSE

\* lines 15-25 with a second fetch(url) whose promise is not awaited
CallFetch_Duplicate(a) ==
    /\ attempt' = a
    /\ requests' = requests + 2
    /\ inflight' = inflight + 2
    /\ data' = NoBody
    /\ pc' = "awaitFetch"

\* lines 15-25: enter fetchWindData(a, maxAttempts) and issue the GET
CallFetch(a) ==
    /\ attempt' = a
    /\ requests' = requests + 1
    /\ inflight' = inflight + 1
    /\ data' = NoBody
    /\ pc' = "awaitFetch"

\* lines 42-53 with attempt <= maxAttempts in line 44
Catch_OffByOne(kind) ==
    /\ hist' = Append(hist, kind)
    /\ inflight' = inflight - 1
    /\ IF attempt <= MaxAttempts
       THEN /\ errlog' = Append(errlog, "attemptFailed")
            /\ waits' = Append(waits, RetryDelay)
            /\ pc' = "awaitTimer"
            /\ UNCHANGED <<alerts, ret>>
       ELSE /\ errlog' = errlog \o <<"attemptFailed", "maxRetries">>
            /\ alerts' = Append(alerts, "failed")
            /\ ret' = Null
            /\ pc' = "awaitFetcher"
            /\ UNCHANGED waits
    /\ UNCHANGED <<attempt, requests, waitsDone, rendered, mapLayers, escaped>>

\* lines 42-53 with a timer promise whose resolve is never called in line 46
Catch_TimerNeverResolves(kind) ==
    /\ hist' = Append(hist, kind)
    /\ inflight' = inflight - 1
    /\ IF attempt < MaxAttempts
       THEN /\ errlog' = Append(errlog, "attemptFailed")
            /\ waits' = Append(waits, RetryDelay)
            /\ pc' = "awaitForever"
            /\ UNCHANGED <<alerts, ret>>
       ELSE /\ errlog' = errlog \o <<"attemptFailed", "maxRetries">>
            /\ alerts' = Append(alerts, "failed")
            /\ ret' = Null
            /\ pc' = "awaitFetcher"
            /\ UNCHANGED waits
    /\ UNCHANGED <<attempt, requests, waitsDone, rendered, mapLayers, escaped>>

\* lines 42-53 with the alert of line 50 placed before the if of line 44
Catch_AlertEveryAttempt(kind) ==
    /\ hist' = Append(hist, kind)
    /\ inflight' = inflight - 1
    /\ alerts' = Append(alerts, "failed")
    /\ IF attempt < MaxAttempts
       THEN /\ errlog' = Append(errlog, "attemptFailed")
            /\ waits' = Append(waits, RetryDelay)
            /\ pc' = "awaitTimer"
            /\ UNCHANGED ret
       ELSE /\ errlog' = errlog \o <<"attemptFailed", "maxRetries">>
            /\ ret' = Null
            /\ pc' = "awaitFetcher"
            /\ UNCHANGED waits
    /\ UNCHANGED <<attempt, requests, waitsDone, rendered, mapLayers, escaped>>

\* lines 42-53: the catch block, entered when request `attempt` ended as `kind`
Catch(kind) ==
    /\ hist' = Append(hist, kind)
    /\ inflight' = inflight - 1
    /\ IF attempt < MaxAttempts
       THEN /\ errlog' = Append(errlog, "attemptFailed")
            /\ waits' = Append(waits, RetryDelay)
            /\ pc' = "awaitTimer"
            /\ UNCHANGED <<alerts, ret>>
       ELSE /\ errlog' = errlog \o <<"attemptFailed", "maxRetries">>
            /\ alerts' = Append(alerts, "failed")
            /\ ret' = Null
            /\ pc' = "awaitFetcher"
            /\ UNCHANGED waits
    /\ UNCHANGED <<attempt, requests, waitsDone, rendered, mapLayers, escaped>>

\* line 145 and line 58: the script calls loadWindData, which calls fetchWindData()
LoadWindData ==
    /\ pc = "start"
    /\ CallFetch(1)
    /\ UNCHANGED <<hist, ret, waits, waitsDone, alerts, errlog, rendered, mapLayers, escaped>>

\* lines 20-31: the fetch promise settles
FetchSettles ==
    /\ pc = "awaitFetch"
    /\ \E o \in FetchOutcomes :
          IF o.rejected
          THEN Catch("neterr") /\ UNCHANGED data
          ELSE IF ~Ok(o.status)
          THEN Catch("http") /\ UNCHANGED data
          ELSE /\ pc' = "awaitJson"
               /\ UNCHANGED <<attempt, inflight, requests, hist, data, ret, waits,
                              waitsDone, alerts, errlog, rendered, mapLayers, escaped>>

\* lines 31-41 with a body that does not parse reported as a format error
JsonSettles_ParseErrorIsFormatError ==
    /\ pc = "awaitJson"
    /\ \/ /\ hist' = Append(hist, "badjson")
          /\ inflight' = inflight - 1
          /\ errlog' = Append(errlog, "format")
          /\ alerts' = Append(alerts, "format")
          /\ ret' = Null
          /\ pc' = "awaitFetcher"
          /\ UNCHANGED <<attempt, requests, data, waits, waitsDone,
                         rendered, mapLayers, escaped>>
       \/ \E b \in Bodies :
             /\ data' = b
             /\ CASE Validate(b) = "throw" -> Catch("typeerror")
                  [] Validate(b) = "invalid" ->
                        /\ hist' = Append(hist, "invalid")
                        /\ inflight' = inflight - 1
                        /\ errlog' = Append(errlog, "format")
                        /\ alerts' = Append(alerts, "format")
                        /\ ret' = Null
                        /\ pc' = "awaitFetcher"
                        /\ UNCHANGED <<attempt, requests, waits, waitsDone,
                                       rendered, mapLayers, escaped>>
                  [] Validate(b) = "valid" ->
                        /\ hist' = Append(hist, "valid")
                        /\ inflight' = inflight - 1
                        /\ ret' = b
                        /\ pc' = "awaitFetcher"
                        /\ UNCHANGED <<attempt, requests, waits, waitsDone, alerts,
                                       errlog, rendered, mapLayers, escaped>>

\* lines 31-41: response.json() settles; the body is validated
JsonSettles ==
    /\ pc = "awaitJson"
    /\ \/ Catch("badjson") /\ UNCHANGED data
       \/ \E b \in Bodies :
             /\ data' = b
             /\ CASE Validate(b) = "throw" -> Catch("typeerror")
                  [] Validate(b) = "invalid" ->
                        /\ hist' = Append(hist, "invalid")
                        /\ inflight' = inflight - 1
                        /\ errlog' = Append(errlog, "format")
                        /\ alerts' = Append(alerts, "format")
                        /\ ret' = Null
                        /\ pc' = "awaitFetcher"
                        /\ UNCHANGED <<attempt, requests, waits, waitsDone,
                                       rendered, mapLayers, escaped>>
                  [] Validate(b) = "valid" ->
                        /\ hist' = Append(hist, "valid")
                        /\ inflight' = inflight - 1
                        /\ ret' = b
                        /\ pc' = "awaitFetcher"
                        /\ UNCHANGED <<attempt, requests, waits, waitsDone, alerts,
                                       errlog, rendered, mapLayers, escaped>>

\* lines 46-47: the retry timer fires; fetchWindData(attempt + 1, maxAttempts)
TimerFires ==
    /\ pc = "awaitTimer"
    /\ waitsDone' = waitsDone + 1
    /\ CallFetch(attempt + 1)
    /\ UNCHANGED <<hist, ret, waits, alerts, errlog, rendered, mapLayers, escaped>>

\* lines 58-142 with the tagging written as uHeader.parameterNumber = 2 and
\* vHeader.parameterNumber = 3 on the fetched headers
LoadWindDataResume_TagsInPlace ==
    /\ pc = "awaitFetcher"
    /\ pc' = "done"
    /\ UNCHANGED <<attempt, inflight, requests, hist, data, waits, waitsDone>>
    /\ IF ret = Null
       THEN UNCHANGED <<ret, alerts, errlog, rendered, mapLayers, escaped>>
       ELSE IF DestructureThrows(ret)
       THEN /\ escaped' = TRUE
            /\ UNCHANGED <<ret, alerts, errlog, rendered, mapLayers>>
       ELSE LET uHeader == HeaderOf(ret.elems[1])
                uData == DataOf(ret.elems[1])
                vData == DataOf(ret.elems[2])
            IN  IF LengthMismatch(uHeader, uData, vData)
                THEN /\ errlog' = Append(errlog, "mismatch")
                     /\ alerts' = Append(alerts, "mismatch")
                     /\ UNCHANGED <<ret, rendered, mapLayers, escaped>>
                ELSE IF ~HasWindData(uData, vData)
                THEN /\ errlog' = Append(errlog, "nodata")
                     /\ alerts' = Append(alerts, "nodata")
                     /\ UNCHANGED <<ret, rendered, mapLayers, escaped>>
                ELSE /\ rendered' = Append(rendered, WindData(ret))
                     /\ ret' = BodyArr(<<ElemObj(WindData(ret)[1].header, uData),
                                         ElemObj(WindData(ret)[2].header, vData)>>)
                     /\ mapLayers' = Append(mapLayers, "velocity")
                     /\ UNCHANGED <<alerts, errlog, escaped>>

\* lines 58-142: loadWindData resumes with the Fetcher's result
LoadWindDataResume ==
    /\ pc = "awaitFetcher"
    /\ pc' = "done"
    /\ UNCHANGED <<attempt, inflight, requests, hist, data, ret, waits, waitsDone>>
    /\ IF ret = Null
       THEN UNCHANGED <<alerts, errlog, rendered, mapLayers, escaped>>
       ELSE IF DestructureThrows(ret)
       THEN /\ escaped' = TRUE
            /\ UNCHANGED <<alerts, errlog, rendered, mapLayers>>
       ELSE LET uHeader == HeaderOf(ret.elems[1])
                uData == DataOf(ret.elems[1])
                vData == DataOf(ret.elems[2])
            IN  IF LengthMismatch(uHeader, uData, vData)
                THEN /\ errlog' = Append(errlog, "mismatch")
                     /\ alerts' = Append(alerts, "mismatch")
                     /\ UNCHANGED <<rendered, mapLayers, escaped>>
                ELSE IF ~HasWindData(uData, vData)
                THEN /\ errlog' = Append(errlog, "nodata")
                     /\ alerts' = Append(alerts, "nodata")
                     /\ UNCHANGED <<rendered, mapLayers, escaped>>
                ELSE /\ rendered' = Append(rendered, WindData(ret))
                     /\ mapLayers' = Append(mapLayers, "velocity")
                     /\ UNCHANGED <<alerts, errlog, escaped>>

Next ==
    \/ LoadWindData
    \/ FetchSettles
    \/ JsonSettles
    \/ TimerFires
    \/ LoadWindDataResume

Spec == Init /\ [][Next]_vars

\* the bodies drawn when termination is checked: every body that is not a
\* pair, and the pairs whose components are alike or one of which is GoodElem
TerminationBodies ==
    {b \in Bodies :
        (b.kind = "arr" /\ Len(b.elems) = 2) =>
            \/ b.elems[1] = b.elems[2]
            \/ GoodElem \in {b.elems[1], b.elems[2]}}

FairNext ==
    \/ LoadWindData
    \/ FetchSettles
    \/ JsonSettles /\ data' \in TerminationBodies \cup {NoBody}
    \/ TimerFires
    \/ LoadWindDataResume

\* the same program when every issued request eventually completes (the
\* fetch and the body read settle), every retry timer eventually fires and
\* the event loop runs every continuation that is ready; the flow is
\* suspended at one place at a time, so at most one action is enabled and
\* fairness of the next-state relation is fairness of each action
FairSpec == Init /\ [][FairNext]_vars /\ WF_vars(FairNext)

(* ------------------------------------------------------------------ *)
(* Vocabulary of the properties                                       *)
(* ------------------------------------------------------------------ *)
\* every completed request ended in a transport error or a non-2xx status
TransportOnly == \A i \in 1..Len(hist) : hist[i] \in {"neterr", "http"}

\* the body shape of spec section 4.1: two elements, each an object with a
\* truthy header and an array data
WellShaped(b) ==
    /\ b.kind = "arr"
    /\ Len(b.elems) = 2
    /\ \A i \in 1..2 :
          /\ b.elems[i].kind = "obj"
          /\ b.elems[i].header.kind \in {"prim", "obj"}
          /\ b.elems[i].data.kind = "arr"

\* the current request was answered 2xx with a body that parsed as JSON
Parsed == data # NoBody

\* the Fetcher returned a payload (not null) to loadWindData
Fetched == ret # Pending /\ ret # Null

HasDim(h) == "nx" \in DOMAIN h.fields /\ "ny" \in DOMAIN h.fields
Cells(h) == h.fields["nx"] * h.fields["ny"]
Length(e) == Len(e.data.items)

\* uData.length = nx*ny and vData.length = nx*ny, nx and ny of the U header
Consistent(b) ==
    /\ HasDim(b.elems[1].header)
    /\ Length(b.elems[1]) = Cells(b.elems[1].header)
    /\ Length(b.elems[2]) = Cells(b.elems[1].header)

AllZero(b) ==
    \A i \in 1..2 : \A k \in 1..Length(b.elems[i]) : b.elems[i].data.items[k] = 0

FetcherAlerts == {i \in 1..Len(alerts) : alerts[i] \in {"format", "failed"}}

(* ------------------------------------------------------------------ *)
(* Properties                                                         *)
(* ------------------------------------------------------------------ *)

\* C1: while every completed request failed with a transport error or a
\* non-2xx status, at most 3 requests are issued, nothing is returned and no
\* alert fires before the 3rd failure, the run does not end before it, and
\* after the 3rd failure 3 requests were issued, fetchWindData returned null
\* and the only alert is the one terminal 'failed to fetch' alert.
C1_RetryExhaustion ==
    TransportOnly =>
        /\ requests <= 3
        /\ Len(hist) <= 3
        /\ Len(hist) < 3 => alerts = <<>> /\ ret = Pending /\ pc # "done"
        /\ Len(hist) = 3 => requests = 3 /\ ret = Null /\ alerts = <<"failed">>

C1_Witness ==
    /\ pc = "done"
    /\ Len(hist) = 3
    /\ TransportOnly
    /\ \E i, j \in 1..3 : hist[i] = "neterr" /\ hist[j] = "http"

\* C2: when the current request was answered 2xx with a parsed body that is
\* not well shaped (elements of any kind, null included), fetchWindData has
\* returned null at once: no retry delay was started for it, no further
\* request was issued and exactly one alert fired.
C2_MalformedReturnsNull ==
    (Parsed /\ ~WellShaped(data)) =>
        /\ pc \in {"awaitFetcher", "done"}
        /\ ret = Null
        /\ requests = Len(hist)
        /\ Len(waits) = Len(hist) - 1
        /\ Len(alerts) = 1

\* C2, the reachable case that breaks it: a parsed body with a null element
\* ended in the catch block and a retry delay is running.
C2_Reached ==
    /\ Parsed
    /\ ~WellShaped(data)
    /\ pc = "awaitTimer"
    /\ hist[Len(hist)] = "typeerror"

\* C2, what the code does keep: a malformed body on which line 35 raises no
\* TypeError is answered with null, the one invalid-format alert and no retry.
C2_DetectedMalformed ==
    (Parsed /\ ~WellShaped(data) /\ hist[Len(hist)] # "typeerror") =>
        /\ pc \in {"awaitFetcher", "done"}
        /\ ret = Null
        /\ requests = Len(hist)
        /\ Len(waits) = Len(hist) - 1
        /\ alerts = <<"format">>

\* C3: when the request of attempt k was answered 2xx with a well-shaped
\* body, fetchWindData returned exactly that body, whatever happened on the
\* earlier attempts; no request and no retry delay followed and the Fetcher
\* fired no alert.
C3_WellShapedReturned ==
    (Parsed /\ WellShaped(data)) =>
        /\ pc \in {"awaitFetcher", "done"}
        /\ ret = data
        /\ requests = Len(hist)
        /\ requests = attempt
        /\ Len(waits) = Len(hist) - 1
        /\ waitsDone = Len(waits)
        /\ FetcherAlerts = {}

C3_Witness ==
    /\ Parsed
    /\ WellShaped(data)
    /\ ret = data
    /\ attempt = 3
    /\ pc = "awaitFetcher"

\* C4: when loadWindData has finished on a payload whose uData or vData
\* length differs from nx*ny of the U header, exactly one alert fired (the
\* length-mismatch one), no request followed and the rendering collaborator
\* was never invoked: the map still carries only the tile layer.
C4_MismatchAborts ==
    (pc = "done" /\ Fetched /\ ~Consistent(ret)) =>
        /\ alerts = <<"mismatch">>
        /\ requests = Len(hist)
        /\ inflight = 0
        /\ rendered = <<>>
        /\ mapLayers = <<"tile">>

C4_Witness ==
    /\ pc = "done"
    /\ Fetched
    /\ HasDim(ret.elems[1].header)
    /\ Length(ret.elems[1]) = Cells(ret.elems[1].header)
    /\ Length(ret.elems[2]) # Cells(ret.elems[1].header)
    /\ ~AllZero(ret)
    /\ alerts = <<"mismatch">>

\* C5: when loadWindData has finished on a length-consistent payload, then
\* if every sample of uData and vData is 0 (also when both are empty and
\* nx*ny = 0) exactly one alert fired, the 'no meaningful data' one, and the
\* rendering collaborator was never invoked; and if some sample is non-zero
\* the degeneracy check did not abort: no alert fired and the payload was
\* rendered.
C5_DegenerateAborts ==
    (pc = "done" /\ Fetched /\ Consistent(ret)) =>
        /\ AllZero(ret) => alerts = <<"nodata">> /\ rendered = <<>> /\ mapLayers = <<"tile">>
        /\ ~AllZero(ret) => alerts = <<>> /\ Len(rendered) = 1

C5_Witness ==
    /\ pc = "done"
    /\ Fetched
    /\ Consistent(ret)
    /\ Cells(ret.elems[1].header) = 0
    /\ Length(ret.elems[1]) = 0
    /\ Length(ret.elems[2]) = 0
    /\ alerts = <<"nodata">>

\* C6: when loadWindData has finished on a payload that is length-consistent
\* and not all zero, the rendering collaborator was invoked exactly once,
\* with a 2-element sequence whose U header has parameterNumber 2 and whose
\* V header has parameterNumber 3 whatever the server sent, whose other
\* header fields are exactly the fetched ones with the fetched values, and
\* whose data sequences are the fetched ones; one layer was added to the map.
C6_TaggedPayloadRendered ==
    (pc = "done" /\ Fetched /\ Consistent(ret) /\ ~AllZero(ret)) =>
        /\ Len(rendered) = 1
        /\ Len(rendered[1]) = 2
        /\ mapLayers = <<"tile", "velocity">>
        /\ rendered[1][1].header.fields["parameterNumber"] = 2
        /\ rendered[1][2].header.fields["parameterNumber"] = 3
        /\ \A i \in 1..2 :
              /\ DOMAIN rendered[1][i].header.fields
                    = DOMAIN ret.elems[i].header.fields \cup {"parameterNumber"}
              /\ \A f \in DOMAIN ret.elems[i].header.fields \ {"parameterNumber"} :
                    rendered[1][i].header.fields[f] = ret.elems[i].header.fields[f]
              /\ rendered[1][i].data = ret.elems[i].data

C6_Witness ==
    /\ pc = "done"
    /\ Len(rendered) = 1
    /\ "parameterNumber" \in DOMAIN ret.elems[1].header.fields
    /\ ret.elems[1].header.fields["parameterNumber"] = 9
    /\ "parameterNumber" \in DOMAIN ret.elems[2].header.fields
    /\ rendered[1][1].header.fields["parameterNumber"] = 2
    /\ rendered[1][2].header.fields["parameterNumber"] = 3

\* C7: every component of every payload handed to the rendering
\* collaborator has nx and ny in its own header and as many samples as
\* nx*ny of its own header, the V component as well as the U component.
C7_OwnHeaderLength ==
    \A k \in 1..Len(rendered) : \A i \in 1..2 :
        /\ HasDim(rendered[k][i].header)
        /\ Len(rendered[k][i].data.items) = Cells(rendered[k][i].header)

\* C7, what the code does keep: the U component has as many samples as its
\* own header says, and the V component has as many samples as the U header
\* says.
C7_UHeaderLength ==
    \A k \in 1..Len(rendered) :
        /\ HasDim(rendered[k][1].header)
        /\ \A i \in 1..2 : Len(rendered[k][i].data.items) = Cells(rendered[k][1].header)

\* C8: no exception ever leaves fetchWindData or loadWindData, whatever the
\* outcome of each request, and every run that ends without rendering ends
\* after a logged message and a user alert.
C8_NoExceptionEscapes ==
    /\ ~escaped
    /\ (pc = "done" /\ rendered = <<>>) => alerts # <<>> /\ errlog # <<>>

C8_Witness ==
    /\ pc = "done"
    /\ ~escaped
    /\ {hist[i] : i \in 1..Len(hist)} = {"badjson", "typeerror", "http"}
    /\ alerts = <<"failed">>

\* C9: at most one request is in flight in every state, every request
\* issued is either completed or the one in flight, and every request but
\* the latest one completed with a failure.
C9_OneRequestInFlight ==
    /\ inflight \in {0, 1}
    /\ requests = Len(hist) + inflight
    /\ inflight = 1 <=> pc \in {"awaitFetch", "awaitJson"}
    /\ \A i \in 1..Len(hist) :
          i < requests => hist[i] \in {"neterr", "http", "badjson", "typeerror"}

C9_Witness ==
    /\ inflight = 1
    /\ requests = 3
    /\ pc = "awaitJson"

\* C10: every retry is preceded by exactly one completed 2000 ms wait (as
\* many waits have completed as requests were issued after the first, at
\* most one wait is pending and each lasts 2000 ms), and no wait is pending
\* after the final failed attempt, after a parsed body that is not well
\* shaped, or after a well-shaped body.
C10_DelayBeforeEachRetry ==
    /\ requests >= 1 => waitsDone = requests - 1
    /\ \A i \in 1..Len(waits) : waits[i] = 2000
    /\ Len(waits) - waitsDone = (IF pc = "awaitTimer" THEN 1 ELSE 0)
    /\ Len(hist) = 3 => pc # "awaitTimer"
    /\ Parsed => pc # "awaitTimer"

\* C10, what the code does keep: the same, with the wait after a parsed
\* body allowed exactly when line 35 raised a TypeError on it.
C10_ExceptTypeError ==
    /\ requests >= 1 => waitsDone = requests - 1
    /\ \A i \in 1..Len(waits) : waits[i] = 2000
    /\ Len(waits) - waitsDone = (IF pc = "awaitTimer" THEN 1 ELSE 0)
    /\ Len(hist) = 3 => pc # "awaitTimer"
    /\ (Parsed /\ pc = "awaitTimer") => hist[Len(hist)] = "typeerror"

\* C10, the reachable case that breaks it: a wait is pending after a parsed
\* body with a null element.
C10_Reached ==
    /\ pc = "awaitTimer"
    /\ Parsed
    /\ data.elems[1].kind = "null"
    /\ Len(waits) = waitsDone + 1

\* C11: when every request eventually completes and every retry timer
\* eventually fires, every run of loadWindData eventually ends, with a
\* layer rendered or after an alert; in every state the attempt number is
\* between 1 and 3, at most 3 requests were issued, and the Fetcher was
\* entered from loadWindData once only, so that the requests issued are
\* those of attempts 1 .. attempt.
C11_Terminates ==
    /\ <>(pc = "done")
    /\ [](/\ attempt \in 1..3
          /\ requests <= 3
          /\ pc # "start" => requests = attempt
          /\ pc = "done" => rendered # <<>> \/ alerts # <<>>)

\* C11, its safety half over every body of the model
C11_Bounded ==
    /\ attempt \in 1..3
    /\ requests <= 3
    /\ pc # "start" => requests = attempt
    /\ pc = "done" => rendered # <<>> \/ alerts # <<>>
    /\ pc = "done" \/ ENABLED Next

C11_Witness ==
    /\ pc = "done"
    /\ requests = 3
    /\ attempt = 3
    /\ Len(rendered) = 1

\* C12: at most one alert fires in a run, and a finished run either
\* rendered once and fired no alert, or fired exactly one alert and
\* rendered nothing; when the Fetcher returned null the one alert is the
\* Fetcher's and nothing was rendered.
C12_OneAlertOrRender ==
    /\ Len(alerts) <= 1
    /\ Len(rendered) <= 1
    /\ rendered # <<>> => alerts = <<>>
    /\ pc = "done" =>
          \/ Len(rendered) = 1 /\ alerts = <<>>
          \/ Len(alerts) = 1 /\ rendered = <<>>
    /\ (pc = "done" /\ ret = Null) =>
          /\ Len(alerts) = 1
          /\ FetcherAlerts = {1}
          /\ rendered = <<>>
          /\ mapLayers = <<"tile">>

C12_Witness ==
    /\ pc = "done"
    /\ ret = Null
    /\ hist = <<"http", "neterr", "badjson">>
    /\ alerts = <<"failed">>

\* C13 as stated: in every finished run, one that aborted as well as one
\* that rendered, exactly one layer was added to the map after its
\* construction.
C13_WrittenExactlyOnce ==
    /\ mapLayers[1] = "tile"
    /\ pc = "done" => mapLayers = <<"tile", "velocity">>

\* C13 as amended: the map carries the tile layer from its construction on;
\* the velocity layer is added to it once, by the run that ends on a
\* length-consistent payload that is not all zero, and in no other run; and
\* no step removes or replaces a layer.
C13_LayerAddedOnlyOnRender ==
    /\ [](mapLayers =
            IF pc = "done" /\ Fetched /\ Consistent(ret) /\ ~AllZero(ret)
            THEN <<"tile", "velocity">>
            ELSE <<"tile">>)
    /\ [][/\ Len(mapLayers') >= Len(mapLayers)
          /\ SubSeq(mapLayers', 1, Len(mapLayers)) = mapLayers]_vars

C13_Witness ==
    /\ pc = "done"
    /\ mapLayers = <<"tile", "velocity">>
    /\ Len(hist) = 2

\* C14: the payload the Fetcher returned is never changed afterwards: in
\* every state it is the body received on the latest attempt, the only
\* attempt that succeeded, with its headers (their own parameterNumber
\* included) and data as received; what was rendered carries the same data.
C14_PayloadNotMutated ==
    Fetched =>
        /\ ret = data
        /\ Len(hist) = attempt
        /\ \A k \in 1..Len(hist) : hist[k] = "valid" <=> k = attempt
        /\ \A k \in 1..Len(rendered) : \A i \in 1..2 :
              rendered[k][i].data = data.elems[i].data

C14_Witness ==
    /\ pc = "done"
    /\ Len(rendered) = 1
    /\ attempt = 2
    /\ "parameterNumber" \in DOMAIN ret.elems[1].header.fields
    /\ ret.elems[1].header.fields["parameterNumber"] = 9
    /\ rendered[1][1].header.fields["parameterNumber"] = 2
    /\ "parameterNumber" \notin DOMAIN ret.elems[2].header.fields

\* C15: when the latest completed request was answered 2xx with a body that
\* does not parse, then before the 3rd attempt no alert has fired, nothing
\* was returned and the Fetcher is waiting for the retry delay or has
\* issued the next request; on the 3rd attempt the only alert is the
\* 'failed to fetch' one and fetchWindData returned null.
C15_UnparsableIsRetried ==
    (Len(hist) >= 1 /\ hist[Len(hist)] = "badjson") =>
        IF Len(hist) < 3
        THEN /\ FetcherAlerts = {}
             /\ ret = Pending
             /\ \/ pc = "awaitTimer" /\ requests = Len(hist) /\ Len(waits) = Len(hist)
                \/ pc \in {"awaitFetch", "awaitJson"} /\ requests = Len(hist) + 1
        ELSE /\ alerts = <<"failed">>
             /\ ret = Null
             /\ requests = 3
             /\ pc \in {"awaitFetcher", "done"}

C15_Witness ==
    /\ pc = "done"
    /\ hist = <<"badjson", "badjson", "badjson">>
    /\ alerts = <<"failed">>
    /\ ret = Null

====
